---------------------------- MODULE Spec2Model ----------------------------
(***************************************************************************)
(* The fact memory store of long-term-memory-redis/main.py                 *)
(* (class RedisMemoryStore): facts kept as Redis hashes under the prefix   *)
(* "memory:", listed and searched through a RediSearch index, deduplicated *)
(* at save time and cleared per owner.                                     *)
(*                                                                         *)
(* A text (str) is a sequence of one-character strings.  An accented       *)
(* letter is one character named after its base letter ("i_acute"); its    *)
(* combining mark is the character "acute".                                *)
(***************************************************************************)
EXTENDS Integers, Sequences, FiniteSets, TLC

(***************************************************************************)
(* Bounds of the model.                                                    *)
(***************************************************************************)
\* Identifiers uuid4 can still hand out: the number of facts a run can add.
NumKeys == 2
\* The clock (time.time(), in seconds) runs from 0 to MaxClock.
MaxClock == 1
\* max_results is drawn from 0..MaxResults.
MaxResults == 2
\* The texts keywords are extracted from have at most MaxWords words.
MaxWords == 2
\* run invokes the model at most MaxInvokes times, and a response of the
\* model holds at most MaxToolCalls tool calls.
MaxInvokes == 3
MaxToolCalls == 2
\* A SummarizingChat takes at most MaxTurns turns; a message has 1..MaxTokens
\* tokens.
MaxTurns == 3
MaxTokens == 2

(***************************************************************************)
(* Program constants.                                                      *)
(***************************************************************************)
PREFIX == "memory:"
\* .paging(0, 100) of get_all_memories
PAGE_LIMIT == 100

(***************************************************************************)
(* The inputs of the model.                                                *)
(***************************************************************************)
\* Owners, in the form main() gives them (str(uuid.uuid4()): hexadecimal
\* digits and hyphens), shortened.
U1 == <<"a","-","1">>
U2 == <<"b","-","2">>
UserIds == {U1, U2}
\* An owner whose identifier holds a character of the query syntax: the
\* constructor takes any str.
U3 == <<"a","{","1">>
AnyUserIds == UserIds \cup {U3}

TOKIO == <<"T","o","k","i","o">>
LTOKIO == <<"t","o","k","i","o">>
SUSHI == <<"s","u","s","h","i">>
RAMEN == <<"r","a","m","e","n">>

\* The facts saved: "Tokio", " tokio ", "Tokio sushi".
FactTexts ==
    { TOKIO, <<" ">> \o LTOKIO \o <<" ">>, TOKIO \o <<" ">> \o SUSHI }

\* The queries searched: "", " ", "mi x ?", "Tokio?", "sushi ramen".
Queries ==
    { <<>>, <<" ">>, <<"m","i"," ","x"," ","?">>, TOKIO \o <<"?">>,
      SUSHI \o <<" ">> \o RAMEN }

\* uuid.uuid4().hex[:12]: the identifiers not handed out before this run.
UuidSpace == (PAGE_LIMIT + 1)..(PAGE_LIMIT + NumKeys)

\* The facts of an owner who reached the listing cap in earlier sessions:
\* PAGE_LIMIT facts with the contents "00" .. "99".
DIGIT_OF == <<"0","1","2","3","4","5","6","7","8","9">>
EarlierFacts ==
    [i \in 1..PAGE_LIMIT |->
        [key |-> <<PREFIX, i>>,
         content |-> <<DIGIT_OF[((i - 1) \div 10) + 1], DIGIT_OF[((i - 1) % 10) + 1]>>,
         user_id |-> U1,
         timestamp |-> 0]]

\* Every content a hash can hold.
StoredTexts == FactTexts \cup {EarlierFacts[i].content : i \in 1..PAGE_LIMIT}

(***************************************************************************)
(* Characters and the str methods the store uses.                          *)
(***************************************************************************)
LOWER_LETTERS ==
    {"a","b","c","d","e","f","g","h","i","j","k","l","m",
     "n","o","p","q","r","s","t","u","v","w","x","y","z"}
UPPER_TO_LOWER ==
    [A |-> "a", B |-> "b", C |-> "c", D |-> "d", E |-> "e", F |-> "f",
     G |-> "g", H |-> "h", I |-> "i", J |-> "j", K |-> "k", L |-> "l",
     M |-> "m", N |-> "n", O |-> "o", P |-> "p", Q |-> "q", R |-> "r",
     S |-> "s", T |-> "t", U |-> "u", V |-> "v", W |-> "w", X |-> "x",
     Y |-> "y", Z |-> "z",
     I_acute |-> "i_acute", E_acute |-> "e_acute", N_tilde |-> "n_tilde"]
DIGITS == {"0","1","2","3","4","5","6","7","8","9"}
ACCENTED_LOWER == {"i_acute", "e_acute", "n_tilde"}
\* unicodedata.normalize("NFKD", c) of the accented letters
DECOMPOSITION ==
    [i_acute |-> <<"i","acute">>, e_acute |-> <<"e","acute">>,
     n_tilde |-> <<"n","tilde">>,
     I_acute |-> <<"I","acute">>, E_acute |-> <<"E","acute">>,
     N_tilde |-> <<"N","tilde">>]
\* unicodedata.combining(c) # 0
COMBINING == {"acute", "tilde"}
WHITESPACE == {" ", "\t"}

isspace(c) == c \in WHITESPACE

isalnum(c) ==
    c \in LOWER_LETTERS \cup DOMAIN UPPER_TO_LOWER \cup DIGITS \cup ACCENTED_LOWER

\* str.lower()
lower(s) ==
    [i \in 1..Len(s) |->
        IF s[i] \in DOMAIN UPPER_TO_LOWER THEN UPPER_TO_LOWER[s[i]] ELSE s[i]]

RECURSIVE lstrip(_)
lstrip(s) ==
    IF s # <<>> /\ isspace(Head(s)) THEN lstrip(Tail(s)) ELSE s

RECURSIVE rstrip(_)
rstrip(s) ==
    IF s # <<>> /\ isspace(s[Len(s)]) THEN rstrip(SubSeq(s, 1, Len(s) - 1)) ELSE s

\* str.strip()
strip(s) == rstrip(lstrip(s))

\* str.split(): the maximal runs of non-whitespace characters, in order.
RECURSIVE split_from(_, _, _)
split_from(s, word, acc) ==
    IF s = <<>>
    THEN IF word = <<>> THEN acc ELSE Append(acc, word)
    ELSE IF isspace(Head(s))
         THEN split_from(Tail(s), <<>>,
                         IF word = <<>> THEN acc ELSE Append(acc, word))
         ELSE split_from(Tail(s), Append(word, Head(s)), acc)

split(s) == split_from(s, <<>>, <<>>)

\* sep.join(parts)
RECURSIVE join(_, _)
join(sep, parts) ==
    IF parts = <<>> THEN <<>>
    ELSE IF Len(parts) = 1 THEN parts[1]
    ELSE parts[1] \o sep \o join(sep, Tail(parts))

\* "".join(c for c in s if keep(c)), for the two filters the store uses
RECURSIVE only_alnum(_)
only_alnum(s) ==
    IF s = <<>> THEN <<>>
    ELSE IF isalnum(Head(s)) THEN <<Head(s)>> \o only_alnum(Tail(s))
    ELSE only_alnum(Tail(s))

RECURSIVE drop_combining(_)
drop_combining(s) ==
    IF s = <<>> THEN <<>>
    ELSE IF Head(s) \in COMBINING THEN drop_combining(Tail(s))
    ELSE <<Head(s)>> \o drop_combining(Tail(s))

\* unicodedata.normalize("NFKD", s)
RECURSIVE nfkd(_)
nfkd(s) ==
    IF s = <<>> THEN <<>>
    ELSE (IF Head(s) \in DOMAIN DECOMPOSITION
          THEN DECOMPOSITION[Head(s)] ELSE <<Head(s)>>) \o nfkd(Tail(s))

Take(s, n) == SubSeq(s, 1, IF n < Len(s) THEN n ELSE Len(s))

Range(s) == {s[i] : i \in 1..Len(s)}

(***************************************************************************)
(* Keyword extraction and query escaping (RedisMemoryStore).               *)
(***************************************************************************)
_STOP_WORDS ==
  { <<"a">>, <<"a","l">>, <<"a","l","g","o">>, <<"a","n">>, <<"a","n","d">>,
    <<"a","r","e">>, <<"a","s">>, <<"a","t">>, <<"b","e">>, <<"b","u","t">>,
    <<"b","y">>, <<"c","o","m","o">>, <<"c","o","n">>, <<"c","u","a","l">>,
    <<"d","e">>, <<"d","e","l">>, <<"d","o">>, <<"e","l">>, <<"e","n">>,
    <<"e","s">>, <<"e","s","o">>, <<"e","s","t","a">>, <<"e","s","t","o">>,
    <<"f","o","r">>, <<"f","r","o","m">>, <<"f","u","e">>, <<"h","a">>,
    <<"h","a","s">>, <<"h","a","v","e">>, <<"h","a","y">>, <<"h","e">>,
    <<"h","e","r">>, <<"h","i","s">>, <<"h","o","w">>, <<"i">>, <<"i","f">>,
    <<"i","n">>, <<"i","s">>, <<"i","t">>, <<"i","t","s">>, <<"l","a">>,
    <<"l","a","s">>, <<"l","e">>, <<"l","o">>, <<"l","o","s">>, <<"m","e">>,
    <<"m","i">>, <<"m","u","y">>, <<"m","y">>, <<"n","o">>, <<"n","o","s">>,
    <<"n","o","t">>, <<"o">>, <<"o","f">>, <<"o","n">>, <<"o","r">>,
    <<"o","u","r">>, <<"p","a","r","a">>, <<"p","e","r","o">>,
    <<"p","o","r">>, <<"q","u","e">>, <<"s","e">>, <<"s","h","e">>,
    <<"s","i">>, <<"s","i","n">>, <<"s","o">>, <<"s","o","n">>, <<"s","u">>,
    <<"t","e">>, <<"t","h","a","t">>, <<"t","h","e">>,
    <<"t","h","e","i","r">>, <<"t","h","e","m">>, <<"t","h","e","y">>,
    <<"t","h","i","s">>, <<"t","o">>, <<"t","u">>, <<"u","n">>,
    <<"u","n","a">>, <<"u","n","o">>, <<"w","a","s">>, <<"w","e">>,
    <<"w","h","a","t">>, <<"w","h","e","n">>, <<"w","h","i","c","h">>,
    <<"w","h","o">>, <<"w","i","l","l">>, <<"w","i","t","h">>, <<"y">>,
    <<"y","a">>, <<"y","o","u">>, <<"y","o","u","r">> }

\* The loop without the stop-word test.
RECURSIVE keep_keywords_unfiltered(_)
keep_keywords_unfiltered(words) ==
    IF words = <<>> THEN <<>>
    ELSE LET clean == only_alnum(Head(words))
         IN  (IF clean # <<>> /\ Len(clean) > 1 THEN <<clean>> ELSE <<>>)
                \o keep_keywords_unfiltered(Tail(words))

\* The loop of _extract_keywords over ascii_text.split()
RECURSIVE keep_keywords(_)
keep_keywords(words) ==
    IF words = <<>> THEN <<>>
    ELSE LET clean == only_alnum(Head(words))
         IN  (IF clean # <<>> /\ lower(clean) \notin _STOP_WORDS /\ Len(clean) > 1
              THEN <<clean>> ELSE <<>>) \o keep_keywords(Tail(words))

_extract_keywords(text) ==
    LET normalized == nfkd(text)
        ascii_text == drop_combining(normalized)
    IN  keep_keywords(split(ascii_text))

\* _extract_keywords, computed once for each query of the model.
KEYWORDS == [q \in Queries |-> _extract_keywords(q)]
keywords_of(query) ==
    IF query \in DOMAIN KEYWORDS THEN KEYWORDS[query] ELSE _extract_keywords(query)

\* special_chars of _escape_query
SPECIAL_CHARS ==
    {"@", ".", "{", "}", "(", ")", "[", "]", "!", "|", "&", "~", "*", "^",
     "$", "\\", "-", ":", "+", "=", ">", "<", "%", "#", "\"", "'", "/"}

RECURSIVE _escape_query(_)
_escape_query(text) ==
    IF text = <<>> THEN <<>>
    ELSE (IF Head(text) \in SPECIAL_CHARS
          THEN <<"\\", Head(text)>> ELSE <<Head(text)>>)
         \o _escape_query(Tail(text))

\* user_id.replace("-", "\\-") of __init__
RECURSIVE _escaped_user_id(_)
_escaped_user_id(user_id) ==
    IF user_id = <<>> THEN <<>>
    ELSE (IF Head(user_id) = "-" THEN <<"\\", "-">> ELSE <<Head(user_id)>>)
         \o _escaped_user_id(Tail(user_id))

USER_ID_FILTER == <<"@","u","s","e","r","_","i","d",":","{">>

\* f"@user_id:{{{self._escaped_user_id}}}" of get_all_memories
all_query(user_id) == USER_ID_FILTER \o _escaped_user_id(user_id) \o <<"}">>

\* The terms joined by a space instead: the engine reads adjacent terms as
\* an intersection (every term must match).
text_query_and(keywords) ==
    join(<<" ">>, [i \in 1..Len(keywords) |-> _escape_query(keywords[i])])

\* " | ".join(escaped_terms) of search_memories
text_query(keywords) ==
    join(<<" ", "|", " ">>,
         [i \in 1..Len(keywords) |-> _escape_query(keywords[i])])

\* The text clause alone, without the owner filter.
full_query_unscoped(user_id, keywords) ==
    <<"(">> \o join(<<" ", "|", " ">>,
                    [i \in 1..Len(keywords) |-> _escape_query(keywords[i])]) \o <<")">>

\* f"@user_id:{{{self._escaped_user_id}}} ({text_query})" of search_memories
full_query(user_id, keywords) ==
    all_query(user_id) \o <<" ", "(">> \o text_query(keywords) \o <<")">>

(***************************************************************************)
(* The RediSearch index "idx:memories" as the store uses it: FT.SEARCH of  *)
(* a query string over the hashes under PREFIX, with a TAG field user_id   *)
(* and a TEXT field content.  Only the part of the query syntax the store  *)
(* composes is parsed: "@user_id:{tag | tag}" and an optional              *)
(* "(term term | term)" clause; a backslash escapes the next character.    *)
(* Stemming and the engine's own stop words are left out.                  *)
(***************************************************************************)
\* The place of the first unescaped c in s at or after i (0: none).
RECURSIVE find_unescaped(_, _, _)
find_unescaped(s, c, i) ==
    IF i > Len(s) THEN 0
    ELSE IF s[i] = "\\" THEN find_unescaped(s, c, i + 2)
    ELSE IF s[i] = c THEN i
    ELSE find_unescaped(s, c, i + 1)

RECURSIVE split_unescaped(_, _)
split_unescaped(s, c) ==
    LET i == find_unescaped(s, c, 1)
    IN  IF i = 0 THEN <<s>>
        ELSE <<SubSeq(s, 1, i - 1)>> \o split_unescaped(SubSeq(s, i + 1, Len(s)), c)

RECURSIVE unescape(_)
unescape(s) ==
    IF s = <<>> THEN <<>>
    ELSE IF Head(s) = "\\" /\ Len(s) > 1
         THEN <<s[2]>> \o unescape(SubSeq(s, 3, Len(s)))
         ELSE <<Head(s)>> \o unescape(Tail(s))

\* A reserved character that is not escaped makes a term or tag malformed.
RECURSIVE has_unescaped_special(_)
has_unescaped_special(s) ==
    IF s = <<>> THEN FALSE
    ELSE IF Head(s) = "\\" THEN Len(s) = 1 \/ has_unescaped_special(SubSeq(s, 3, Len(s)))
    ELSE Head(s) \in SPECIAL_CHARS \/ has_unescaped_special(Tail(s))

SyntaxError == [ok |-> FALSE, filter |-> FALSE, tags |-> {}, text |-> FALSE, alts |-> {}]

\* The text clause "(term term | term)": its alternatives (|), each the set of
\* terms a document must all hold.  ok is FALSE when the clause is malformed.
ft_parse_clause(clause) ==
    LET parts == split_unescaped(SubSeq(clause, 2, Len(clause) - 1), "|")
    IN  IF \/ Len(clause) < 2 \/ Head(clause) # "(" \/ clause[Len(clause)] # ")"
           \/ \E i \in 1..Len(parts) :
                 \/ split(parts[i]) = <<>>
                 \/ \E w \in Range(split(parts[i])) : has_unescaped_special(w)
        THEN [ok |-> FALSE, alts |-> {}]
        ELSE [ok |-> TRUE,
              alts |-> {{lower(unescape(w)) : w \in Range(split(parts[i]))} :
                            i \in 1..Len(parts)}]

\* The query as the engine reads it: the tags of the user_id filter when it
\* has one, and the alternatives of the text clause when it has one; the two
\* are intersected.
ft_parse(q) ==
    LET n == Len(USER_ID_FILTER)
        filter == Len(q) >= n /\ SubSeq(q, 1, n) = USER_ID_FILTER
        rest == IF filter THEN SubSeq(q, n + 1, Len(q)) ELSE q
        close == IF filter THEN find_unescaped(rest, "}", 1) ELSE 0
        tagparts == split_unescaped(SubSeq(rest, 1, close - 1), "|")
        clause == strip(SubSeq(rest, close + 1, Len(rest)))
        parsed == ft_parse_clause(clause)
    IN  IF filter /\ close = 0 THEN SyntaxError
        ELSE IF filter /\ \E i \in 1..Len(tagparts) :
                              \/ strip(tagparts[i]) = <<>>
                              \/ has_unescaped_special(strip(tagparts[i]))
        THEN SyntaxError
        ELSE IF clause = <<>> /\ ~filter THEN SyntaxError
        ELSE IF clause # <<>> /\ ~parsed.ok THEN SyntaxError
        ELSE [ok |-> TRUE,
              filter |-> filter,
              tags |-> IF filter
                       THEN {unescape(strip(tagparts[i])) : i \in 1..Len(tagparts)}
                       ELSE {},
              text |-> clause # <<>>,
              alts |-> IF clause # <<>> THEN parsed.alts ELSE {}]

\* ft_parse, computed once for each query string the store can send.
SENT_QUERIES ==
    {all_query(u) : u \in AnyUserIds}
        \cup {full_query(u, KEYWORDS[q]) : u \in AnyUserIds, q \in Queries}
PARSED == [q \in SENT_QUERIES |-> ft_parse(q)]
parsed_query(q) == IF q \in DOMAIN PARSED THEN PARSED[q] ELSE ft_parse(q)

\* The terms the TEXT field indexes for a content: its maximal alphanumeric
\* runs, lowercased.
index_tokens(content) ==
    LET spaced == [i \in 1..Len(content) |->
                      IF isalnum(content[i]) THEN content[i] ELSE " "]
    IN  {lower(w) : w \in Range(split(spaced))}

\* index_tokens, computed once for each content a hash can hold.
INDEXED == [c \in StoredTexts |-> index_tokens(c)]
indexed(content) ==
    IF content \in DOMAIN INDEXED THEN INDEXED[content] ELSE index_tokens(content)

ft_matches(doc, parsed) ==
    /\ parsed.filter => doc.user_id \in parsed.tags
    /\ parsed.text => \E alt \in parsed.alts : alt \subseteq indexed(doc.content)

\* The replies FT.SEARCH can give to an accepted query with LIMIT 0 num: the
\* matching documents in index order when the query only filters, and in any
\* order (the relevance ranking is the engine's) when it has a text clause.
ft_search(docs, q, num) ==
    LET parsed == parsed_query(q)
        matched == SelectSeq(docs, LAMBDA d : ft_matches(d, parsed))
        n == Len(matched)
        k == IF num < n THEN num ELSE n
    IN  IF ~parsed.text
        THEN {Take(matched, num)}
        ELSE {[i \in 1..k |-> matched[p[i]]] :
                 p \in {f \in [1..k -> 1..n] :
                          \A i, j \in 1..k : i # j => f[i] # f[j]}}

\* redis.ResponseError of FT.SEARCH: the engine rejects the query.
ft_rejects(q, num) == ~parsed_query(q).ok \/ num < 0

(***************************************************************************)
(* The state.                                                              *)
(***************************************************************************)
VARIABLES
    store,   \* the hashes under PREFIX, in the order the index lists them:
             \* [key, content, user_id, timestamp]
    now,     \* time.time()
    last,    \* the last call of a store method: arguments, locals, result
    prev,    \* the save_memory call before it, when both are save_memory calls
    pc,      \* where a clear_memories call taken step by step stands
    cl,      \* its locals: the owner, the keys scan_iter has yet to yield, count
    seen,    \* what another client listed while that call was in its loop
    products,  \* rag-pgvector: the rows of the table products, in id order
    retriever, \* rag-pgvector: the fields of the PostgresHybridRetriever
    ret,       \* rag-pgvector: the last retrieval (arguments, SQL rows, result)
    saving,    \* the save_memory call of each client taken step by step
    run,       \* tool-calling: the messages and the position of run
    chat       \* summarize-conversation: the fields of the SummarizingChat

storeVars == <<store, now>>
callVars == <<last, prev>>
clearVars == <<pc, cl, seen>>
ragVars == <<products, retriever, ret>>
memoryVars == <<store, now, last, prev, pc, cl, seen>>
agentVars == <<saving, run, chat>>
vars == <<store, now, last, prev, pc, cl, seen, products, retriever, ret,
          saving, run, chat>>

NoCall ==
    [op |-> "none", user_id |-> <<>>, text |-> <<>>, max_results |-> 0,
     memory_id |-> <<>>, memories |-> <<>>, count |-> 0,
     docs |-> <<>>, existing |-> <<>>, owned |-> 0,
     engine |-> "up", raised |-> "none", sent |-> <<>>, keywords |-> <<>>]

Keys(docs) == {docs[i].key : i \in 1..Len(docs)}

OwnedBy(docs, user_id) == SelectSeq(docs, LAMBDA d : d.user_id = user_id)

Contents(docs) == [i \in 1..Len(docs) |-> docs[i].content]

\* HSET key field value ...: a new hash is put after the others in the index;
\* the fields of an existing hash are overwritten in place.
hset(docs, key, mapping) ==
    LET doc == [key |-> key, content |-> mapping.content,
                user_id |-> mapping.user_id, timestamp |-> mapping.timestamp]
    IN  IF key \in Keys(docs)
        THEN [i \in 1..Len(docs) |-> IF docs[i].key = key THEN doc ELSE docs[i]]
        ELSE Append(docs, doc)

\* DEL key
delete(docs, key) == SelectSeq(docs, LAMBDA d : d.key # key)

(***************************************************************************)
(* RedisMemoryStore.get_all_memories                                       *)
(***************************************************************************)
get_all_docs(docs, user_id) ==
    LET q == all_query(user_id)
    IN  IF ft_rejects(q, PAGE_LIMIT) THEN <<>>
        ELSE CHOOSE r \in ft_search(docs, q, PAGE_LIMIT) : TRUE

get_all_memories(docs, user_id) == Contents(get_all_docs(docs, user_id))

(***************************************************************************)
(* RedisMemoryStore.save_memory                                            *)
(***************************************************************************)
\* The deduplication loop: some listed memory equals the content after
\* strip().lower().
\* content.strip().lower(), computed once for each content of the model.
NORMALIZED == [c \in StoredTexts |-> lower(strip(c))]
strip_lower(content) ==
    IF content \in DOMAIN NORMALIZED THEN NORMALIZED[content] ELSE lower(strip(content))

\* A looser comparison: a listed memory that the content starts with counts
\* as the same fact.
is_duplicate_startswith(existing, content) ==
    LET normalized == strip_lower(content)
    IN  \E i \in 1..Len(existing) :
           LET e == strip_lower(existing[i])
           IN  Len(e) <= Len(normalized) /\ SubSeq(normalized, 1, Len(e)) = e

is_duplicate(existing, content) ==
    LET normalized == strip_lower(content)
    IN  \E i \in 1..Len(existing) : strip_lower(existing[i]) = normalized

\* An identifier drawn with no regard to the keys in use.
any_memory_ids(docs) == {<<PREFIX, h>> : h \in UuidSpace}

\* f"{self.PREFIX}{uuid.uuid4().hex[:12]}"
new_memory_ids(docs) == {<<PREFIX, h>> : h \in UuidSpace} \ Keys(docs)

SaveCall(user_id, content, existing, memory_id) ==
    [NoCall EXCEPT !.op = "save_memory", !.user_id = user_id, !.text = content,
                   !.existing = existing, !.memory_id = memory_id,
                   !.owned = Len(OwnedBy(store, user_id))]

save_memory(user_id, content) ==
    LET existing == get_all_memories(store, user_id)
    IN  /\ IF is_duplicate(existing, content)
           THEN /\ UNCHANGED storeVars
                /\ last' = SaveCall(user_id, content, existing, <<>>)
           ELSE \E memory_id \in new_memory_ids(store), t \in now..MaxClock :
                /\ now' = t
                /\ store' = hset(store, memory_id,
                                 [content |-> content, user_id |-> user_id,
                                  timestamp |-> t])
                /\ last' = SaveCall(user_id, content, existing, memory_id)
        /\ prev' = IF last.op = "save_memory" THEN last ELSE NoCall

(***************************************************************************)
(* RedisMemoryStore.search_memories                                        *)
(***************************************************************************)
SearchCall(user_id, query, max_results, docs) ==
    [NoCall EXCEPT !.op = "search_memories", !.user_id = user_id,
                   !.text = query, !.max_results = max_results,
                   !.docs = [i \in 1..Len(docs) |-> docs[i].key],
                   !.memories = Contents(docs),
                   !.owned = Len(OwnedBy(store, user_id))]

\* The keyword path without .paging(0, max_results): every match is returned.
keyword_replies_unpaged(docs, user_id, keywords, max_results) ==
    LET q == full_query(user_id, keywords)
    IN  IF ft_rejects(q, max_results) THEN {<<>>}
        ELSE ft_search(docs, q, Len(docs))

\* The replies of the keyword path: the documents of results.docs, or none
\* when the engine rejects the query (redis.ResponseError, caught).
keyword_replies(docs, user_id, keywords, max_results) ==
    LET q == full_query(user_id, keywords)
    IN  IF ft_rejects(q, max_results) THEN {<<>>}
        ELSE ft_search(docs, q, max_results)

\* No fallback: a query without keywords finds nothing.
fallback_reply_none(docs, user_id, max_results) == <<>>

\* The reply of the fallback: get_all_memories()[:max_results]
fallback_reply(docs, user_id, max_results) ==
    Take(get_all_docs(docs, user_id), max_results)

search_memories(user_id, query, max_results) ==
    LET keywords == keywords_of(query)
    IN  /\ IF keywords = <<>>
           THEN last' = SearchCall(user_id, query, max_results,
                                   fallback_reply(store, user_id, max_results))
           ELSE \E docs \in keyword_replies(store, user_id, keywords, max_results) :
                   last' = SearchCall(user_id, query, max_results, docs)
        /\ prev' = NoCall
        /\ UNCHANGED storeVars

\* A call of get_all_memories by the application (main lists the memories).
list_memories(user_id) ==
    /\ LET docs == get_all_docs(store, user_id)
       IN  last' = [NoCall EXCEPT !.op = "get_all_memories", !.user_id = user_id,
                                  !.docs = [i \in 1..Len(docs) |-> docs[i].key],
                                  !.memories = Contents(docs),
                                  !.owned = Len(OwnedBy(store, user_id))]
    /\ prev' = NoCall
    /\ UNCHANGED storeVars

(***************************************************************************)
(* RedisMemoryStore.clear_memories                                         *)
(***************************************************************************)
\* One turn of a loop without the HGET test: every key under PREFIX is
\* deleted and counted.
clear_key_any(state, key, user_id) ==
    IF \E i \in 1..Len(state.docs) : state.docs[i].key = key
    THEN [docs |-> delete(state.docs, key), count |-> state.count + 1]
    ELSE state

\* One turn of the loop over scan_iter: the key is deleted and counted when
\* its user_id field is the owner's.
clear_key(state, key, user_id) ==
    IF \E i \in 1..Len(state.docs) :
          state.docs[i].key = key /\ state.docs[i].user_id = user_id
    THEN [docs |-> delete(state.docs, key), count |-> state.count + 1]
    ELSE state

\* The whole loop, over the keys SCAN yields (every key under PREFIX), one
\* after the other.  The recursion does the first half of the keys, then the
\* second, so that it stays shallow on a long key list; once no hash is left,
\* the remaining turns find nothing and change nothing.
RECURSIVE clear_loop(_, _, _)
clear_loop(state, keys, user_id) ==
    IF keys = <<>> THEN state
    ELSE IF Len(keys) = 1 THEN clear_key(state, keys[1], user_id)
    ELSE LET half == Len(keys) \div 2
             first == clear_loop(state, SubSeq(keys, 1, half), user_id)
         IN  IF first.docs = <<>> THEN first
             ELSE clear_loop(first, SubSeq(keys, half + 1, Len(keys)), user_id)

\* A clear that deletes the hashes get_all_memories lists (the local
\* "memories" of clear_memories) instead of scanning the keys.
clear_memories_listed(user_id) ==
    LET listed == Keys(get_all_docs(store, user_id))
    IN  /\ store' = SelectSeq(store, LAMBDA d : d.key \notin listed)
        /\ last' = [NoCall EXCEPT !.op = "clear_memories", !.user_id = user_id,
                                  !.count = Cardinality(listed),
                                  !.owned = Len(OwnedBy(store, user_id))]
        /\ prev' = NoCall
        /\ UNCHANGED now

clear_memories(user_id) ==
    LET keys == [i \in 1..Len(store) |-> store[i].key]
        done == clear_loop([docs |-> store, count |-> 0], keys, user_id)
    IN  /\ store' = done.docs
        /\ last' = [NoCall EXCEPT !.op = "clear_memories", !.user_id = user_id,
                                  !.count = done.count,
                                  !.owned = Len(OwnedBy(store, user_id))]
        /\ prev' = NoCall
        /\ UNCHANGED now

(***************************************************************************)
(* The store under sequential calls: every call runs to its end before the *)
(* next one starts.                                                        *)
(***************************************************************************)
NoClear == [user_id |-> <<>>, keys |-> <<>>, count |-> 0, owned |-> 0]
NotSeen == [made |-> FALSE, memories |-> <<>>]
\* No retrieval made yet.
NoRetrieval ==
    [op |-> "none", query |-> <<>>, embedding |-> 0, k |-> 0, max_results |-> 0,
     semantic_search |-> {}, keyword_search |-> {}, fused |-> <<>>,
     rows |-> <<>>, documents |-> <<>>, raised |-> "none", fault |-> "none"]

\* Two clients (two RedisMemoryStore objects, or two threads of one) call
\* save_memory at the same time.
Clients == {1, 2}
NoSave ==
    [pc |-> "idle", user_id |-> <<>>, content |-> <<>>, existing |-> <<>>,
     memory_id |-> <<>>]
NoSaving == [c \in Clients |-> NoSave]

\* tool-calling: no run is under way; summarize-conversation: no chat yet.
NoRun == [pc |-> "idle", messages |-> <<>>, tc |-> 0, returned |-> "none",
          raised |-> "none"]
NoChat ==
    [pc |-> "idle", history |-> <<>>, context_tokens |-> 0,
     token_threshold |-> 1000, user_message |-> 0, turns |-> 0]

Init ==
    /\ store = <<>>
    /\ now = 0
    /\ last = NoCall
    /\ prev = NoCall
    /\ pc = "idle"
    /\ cl = NoClear
    /\ seen = NotSeen
    /\ products = <<>>
    /\ retriever = [max_results |-> 3]
    /\ ret = NoRetrieval
    /\ saving = NoSaving
    /\ run = NoRun
    /\ chat = NoChat

Next ==
    \/ \E u \in UserIds, c \in FactTexts :
          save_memory(u, c) /\ UNCHANGED <<clearVars, ragVars, agentVars>>
    \/ \E u \in UserIds, q \in Queries, n \in 0..MaxResults :
          search_memories(u, q, n) /\ UNCHANGED <<clearVars, ragVars, agentVars>>
    \/ \E u \in UserIds : list_memories(u) /\ UNCHANGED <<clearVars, ragVars, agentVars>>
    \/ \E u \in UserIds : clear_memories(u) /\ UNCHANGED <<clearVars, ragVars, agentVars>>

Spec == Init /\ [][Next]_vars

(***************************************************************************)
(* The writes and the listing alone, from the empty store and from a store *)
(* in which owner U1 already holds PAGE_LIMIT facts.                       *)
(***************************************************************************)
StoreInit ==
    /\ store \in {<<>>, EarlierFacts}
    /\ now = 0
    /\ last = NoCall
    /\ prev = NoCall
    /\ pc = "idle"
    /\ cl = NoClear
    /\ seen = NotSeen
    /\ products = <<>>
    /\ retriever = [max_results |-> 3]
    /\ ret = NoRetrieval
    /\ saving = NoSaving
    /\ run = NoRun
    /\ chat = NoChat

StoreNext ==
    \/ \E u \in UserIds, c \in FactTexts :
          save_memory(u, c) /\ UNCHANGED <<clearVars, ragVars, agentVars>>
    \/ \E u \in UserIds : list_memories(u) /\ UNCHANGED <<clearVars, ragVars, agentVars>>
    \/ \E u \in UserIds : clear_memories(u) /\ UNCHANGED <<clearVars, ragVars, agentVars>>

StoreSpec == StoreInit /\ [][StoreNext]_vars

(***************************************************************************)
(* clear_memories step by step: one Redis command of its loop at a time,   *)
(* any of which can fail (redis.ConnectionError ends the call), while      *)
(* another client of the same Redis lists memories.  The caller itself is   *)
(* inside clear_memories, so it saves only between two clears.             *)
(***************************************************************************)
\* The orders in which SCAN can yield the keys under PREFIX.
scan_orders(docs) ==
    LET n == Len(docs)
    IN  {[i \in 1..n |-> docs[p[i]].key] :
            p \in {f \in [1..n -> 1..n] : \A i, j \in 1..n : i # j => f[i] # f[j]}}

\* memories = self.get_all_memories(); count = 0; the scan starts.
clear_begin(user_id) ==
    /\ pc \in {"idle", "returned", "failed"}
    /\ \E keys \in scan_orders(store) :
          cl' = [user_id |-> user_id, keys |-> keys, count |-> 0,
                 owned |-> Len(OwnedBy(store, user_id))]
    /\ pc' = "loop"
    /\ seen' = NotSeen
    /\ UNCHANGED <<storeVars, callVars>>

\* One turn of the loop: HGET key user_id, and DEL key when it is the owner's.
clear_turn ==
    /\ pc = "loop"
    /\ cl.keys # <<>>
    /\ LET done == clear_key([docs |-> store, count |-> cl.count],
                             Head(cl.keys), cl.user_id)
       IN  /\ store' = done.docs
           /\ cl' = [cl EXCEPT !.keys = Tail(cl.keys), !.count = done.count]
    /\ UNCHANGED <<now, callVars, pc, seen>>

\* A command of the loop fails: the exception leaves clear_memories.
clear_fail ==
    /\ pc = "loop"
    /\ cl.keys # <<>>
    /\ pc' = "failed"
    /\ UNCHANGED <<storeVars, callVars, cl, seen>>

\* The scan is over: return count.
clear_return ==
    /\ pc = "loop"
    /\ cl.keys = <<>>
    /\ pc' = "returned"
    /\ last' = [NoCall EXCEPT !.op = "clear_memories", !.user_id = cl.user_id,
                              !.count = cl.count, !.owned = cl.owned]
    /\ prev' = NoCall
    /\ UNCHANGED <<storeVars, cl, seen>>

\* Another client lists the memories of the owner being cleared.
other_client_lists ==
    /\ pc = "loop"
    /\ seen' = [made |-> TRUE, memories |-> get_all_memories(store, cl.user_id)]
    /\ UNCHANGED <<storeVars, callVars, pc, cl>>

\* The caller saves between two clears: the clear before is over, its
\* locals are gone.
save_between(user_id, content) ==
    /\ pc # "loop"
    /\ save_memory(user_id, content)
    /\ pc' = "idle"
    /\ cl' = NoClear
    /\ seen' = NotSeen

ClearNext ==
    \/ \E u \in UserIds, c \in FactTexts :
          save_between(u, c) /\ UNCHANGED <<ragVars, agentVars>>
    \/ \E u \in UserIds : clear_begin(u) /\ UNCHANGED <<ragVars, agentVars>>
    \/ clear_turn /\ UNCHANGED <<ragVars, agentVars>>
    \/ clear_fail /\ UNCHANGED <<ragVars, agentVars>>
    \/ clear_return /\ UNCHANGED <<ragVars, agentVars>>
    \/ other_client_lists /\ UNCHANGED <<ragVars, agentVars>>

ClearSpec == Init /\ [][ClearNext]_vars

(***************************************************************************)
(* The store when Redis is not in order: the index "idx:memories" is gone  *)
(* (dropped, or Redis restarted without it) or the connection is lost.     *)
(* FT.SEARCH on a missing index raises redis.ResponseError, as             *)
(* _ensure_index expects of FT.INFO; a lost connection raises              *)
(* redis.ConnectionError, which is no ResponseError.  The constructor      *)
(* takes any str as user_id, so owners other than main()'s are tried too.  *)
(***************************************************************************)
ENGINE_STATES == {"up", "no_index", "down"}

\* The queries searched while Redis is not in order: "mi x ?", "Tokio?".
FaultQueries == { <<"m","i"," ","x"," ","?">>, TOKIO \o <<"?">> }

\* The exception self.r.ft(INDEX_NAME).search(q) raises for the state of Redis.
ft_error(engine) ==
    IF engine = "no_index" THEN "ResponseError"
    ELSE IF engine = "down" THEN "ConnectionError"
    ELSE "none"

\* No except clause: every exception leaves the method.
propagates_all(error) == error # "none"

\* except redis.ResponseError: the one exception search_memories and
\* get_all_memories catch; any other leaves the method.
propagates(error) == error \notin {"none", "ResponseError"}


\* search_memories in a given state of Redis.  Both paths end in FT.SEARCH:
\* the fallback through get_all_memories, whose except clause is the same.
search_memories_on(engine, user_id, query, max_results) ==
    IF ft_error(engine) = "none"
    THEN /\ search_memories(user_id, query, max_results)
    ELSE /\ last' = [SearchCall(user_id, query, max_results, <<>>)
                        EXCEPT !.engine = engine,
                               !.raised = IF propagates(ft_error(engine))
                                          THEN ft_error(engine) ELSE "none"]
         /\ prev' = NoCall
         /\ UNCHANGED storeVars

\* get_all_memories in a given state of Redis.
list_memories_on(engine, user_id) ==
    IF ft_error(engine) = "none"
    THEN /\ list_memories(user_id)
    ELSE /\ last' = [NoCall EXCEPT !.op = "get_all_memories", !.user_id = user_id,
                                   !.owned = Len(OwnedBy(store, user_id)),
                                   !.engine = engine,
                                   !.raised = IF propagates(ft_error(engine))
                                              THEN ft_error(engine) ELSE "none"]
         /\ prev' = NoCall
         /\ UNCHANGED storeVars

FaultNext ==
    \/ \E u \in UserIds, c \in FactTexts :
          save_memory(u, c) /\ UNCHANGED <<clearVars, ragVars, agentVars>>
    \/ \E e \in ENGINE_STATES, u \in AnyUserIds, q \in FaultQueries,
          n \in {MaxResults} :
          search_memories_on(e, u, q, n) /\ UNCHANGED <<clearVars, ragVars, agentVars>>
    \/ \E e \in ENGINE_STATES, u \in AnyUserIds :
          list_memories_on(e, u) /\ UNCHANGED <<clearVars, ragVars, agentVars>>

FaultSpec == Init /\ [][FaultNext]_vars

(***************************************************************************)
(* The query strings the store composes, for owner identifiers and texts   *)
(* of any content.                                                         *)
(***************************************************************************)
\* Owner identifiers: "a-1", "a", "a|b", "a{1", "a b", "a\".
QueryUserIds ==
    { U1, <<"a">>, <<"a","|","b">>, U3, <<"a"," ","b">>, <<"a","\\">> }

\* Texts: every text of at most two characters out of "a", "b", "|", and
\* "ab cd", "a|b ab", "ab-cd", "mi ab", "Tokio?".
QueryTexts ==
    {<<>>}
      \cup {<<x>> : x \in {"a","b","|"}}
      \cup {<<x, y>> : x \in {"a","b","|"}, y \in {"a","b","|"}}
      \cup { <<"a","b"," ","c","d">>, <<"a","|","b"," ","a","b">>,
             <<"a","b","-","c","d">>, <<"m","i"," ","a","b">>,
             TOKIO \o <<"?">> }

\* The string search_memories hands to Query(...): full_query when the text
\* has keywords, and the query of get_all_memories when it has none.
compose_query(user_id, text) ==
    /\ LET keywords == _extract_keywords(text)
       IN  last' = [NoCall EXCEPT !.op = "Query", !.user_id = user_id,
                                  !.text = text,
                                  !.sent = IF keywords = <<>>
                                           THEN all_query(user_id)
                                           ELSE full_query(user_id, keywords)]
    /\ prev' = NoCall
    /\ UNCHANGED <<storeVars, clearVars, ragVars, agentVars>>

QueryNext == \E u \in QueryUserIds, t \in QueryTexts : compose_query(u, t)

QuerySpec == Init /\ [][QueryNext]_vars

-----------------------------------------------------------------------------
\* _extract_keywords applied to texts of at most MaxWords words.

\* "Tokio", "TOKIO", "EL", "el" with an accent, "París", "PARÍS", "x",
\* "a-b?", "?", "sushi".
KeywordWords ==
    { TOKIO, <<"T","O","K","I","O">>, <<"E","L">>, <<"e_acute","l">>,
      <<"P","a","r","i_acute","s">>, <<"P","A","R","I_acute","S">>,
      <<"x">>, <<"a","-","b","?">>, <<"?">>, SUSHI }

KeywordTexts ==
    {join(<<" ">>, words) :
        words \in UNION {[1..n -> KeywordWords] : n \in 0..MaxWords}}

extract_keywords(text) ==
    /\ last' = [NoCall EXCEPT !.op = "_extract_keywords", !.text = text,
                              !.keywords = _extract_keywords(text)]
    /\ prev' = NoCall
    /\ UNCHANGED <<storeVars, clearVars, ragVars, agentVars>>

KeywordNext == \E t \in KeywordTexts : extract_keywords(t)

KeywordSpec == Init /\ [][KeywordNext]_vars

-----------------------------------------------------------------------------
\* The store with facts and queries that hold accented letters.

PARIS == <<"P","a","r","i","s">>
PARIS_ACUTE == <<"P","a","r","i_acute","s">>

\* "París", "Tokio"
AccentFacts == {PARIS_ACUTE, TOKIO}
\* "Paris", "París", "Tokio?"
AccentQueries == {PARIS, PARIS_ACUTE, TOKIO \o <<"?">>}

AccentNext ==
    \/ \E u \in UserIds, c \in AccentFacts :
          save_memory(u, c) /\ UNCHANGED <<clearVars, ragVars, agentVars>>
    \/ \E u \in UserIds, q \in AccentQueries :
          search_memories(u, q, MaxResults)
             /\ UNCHANGED <<clearVars, ragVars, agentVars>>

AccentSpec == Init /\ [][AccentNext]_vars

(***************************************************************************)
(* rag-pgvector/main.py: the hybrid retriever over the table products      *)
(* (PostgresHybridRetriever and HYBRID_SEARCH_SQL).                        *)
(*                                                                         *)
(* A text is a sequence of words.  An embedding is the direction of a unit *)
(* vector in a half plane, given as an angle in whole steps: the cosine    *)
(* distance of two such vectors grows with the difference of their angles. *)
(* A score is a fraction [num, den]: 1.0 / (k + rank) is a numeric that    *)
(* PostgreSQL keeps to 20 decimal places, far finer than the gap between   *)
(* two different sums of reciprocals of ranks, so the fractions order the  *)
(* rows as the numerics do.                                                *)
(***************************************************************************)
\* "k": 60 of _get_relevant_documents
K == 60
\* LIMIT 20 of semantic_search and keyword_search
CANDIDATE_LIMIT == 20

\* The table holds at most MaxProducts rows, or the rows of BigCatalog.
MaxProducts == 3
\* Embeddings are the angles 0..MaxAngle.
MaxAngle == 1
\* max_results is drawn from -1..MaxLimit (and, over BigCatalog, is
\* MaxLimit or CANDIDATE_LIMIT + 1).
MaxLimit == 3

\* The words of the texts, with the stop words and the stems of the
\* 'spanish' text search configuration for them.
SPANISH_STOP_WORDS == {"que", "y"}
SPANISH_STEMS ==
    [botas |-> "bot", bota |-> "bot", bastones |-> "baston",
     binoculares |-> "binocular", surf |-> "surf"]

\* name || ' ' || description of a product
ProductTexts ==
    { <<"botas">>, <<"bastones">>, <<"binoculares">>, <<"bota", "bastones">> }

\* The questions asked: "botas", "que botas y bastones", "surf", "que".
RagQueries ==
    { <<"botas">>, <<"que", "botas", "y", "bastones">>, <<"surf">>, <<"que">> }

ProductRows == [text : ProductTexts, embedding : 0..MaxAngle]

\* A catalog larger than the candidate window: CANDIDATE_LIMIT + 1 products,
\* each farther from the questions than the one before; the second and the
\* last name boots, the second twice, and the last names poles as well.
BigCatalog ==
    [id \in 1..(CANDIDATE_LIMIT + 1) |->
        [text |-> IF id = 2 THEN <<"botas", "bota">>
                  ELSE IF id = CANDIDATE_LIMIT + 1 THEN <<"botas", "bastones">>
                  ELSE <<"binoculares">>,
         embedding |-> MaxAngle + id]]

\* PRODUCTS as create_knowledge_db inserts them (id SERIAL: the position).
Catalogs == UNION {[1..n -> ProductRows] : n \in 0..MaxProducts}

LimitValues == -1..MaxLimit

\* to_tsvector('spanish', text): the lexemes of the words that are no stop
\* words, in their order.
to_tsvector(text) ==
    LET kept == SelectSeq(text, LAMBDA w : w \notin SPANISH_STOP_WORDS)
    IN  [i \in 1..Len(kept) |-> SPANISH_STEMS[kept[i]]]

\* plainto_tsquery('spanish', text): the lexemes of the text, joined by &.
plainto_tsquery(text) == Range(to_tsvector(text))

\* tsvector @@ tsquery, for a query of lexemes joined by &: every lexeme is
\* in the vector.  An empty query matches nothing.
tsvector_matches(tsvector, query) ==
    query # {} /\ query \subseteq Range(tsvector)

\* ts_rank_cd(tsvector, query), kept to what orders the rows of the model:
\* the more places of the vector hold a lexeme of the query, the higher.
ts_rank_cd(tsvector, query) ==
    Cardinality({i \in 1..Len(tsvector) : tsvector[i] \in query})

\* Every embedding at the same distance.
cosine_distance_flat(a, b) == 0

\* embedding <=> query_embedding, kept to its order.
cosine_distance(a, b) == IF a < b THEN b - a ELSE a - b

\* RANK() OVER (ORDER BY key): one more than the number of rows before.
sql_rank(ids, key, id) == 1 + Cardinality({j \in ids : key[j] < key[id]})

\* ORDER BY key: every order of the rows in which no key goes down; rows
\* with equal keys come in any order.
RECURSIVE order_keyed(_)
order_keyed(keyed) ==
    IF keyed = {} THEN {<<>>}
    ELSE LET firsts == {x \in keyed : \A y \in keyed : x[1] <= y[1]}
         IN  UNION {{<<x[2]>> \o o : o \in order_keyed(keyed \ {x})} :
                       x \in firsts}

order_by(ids, key) == order_keyed({<<key[x], x>> : x \in ids})

\* SELECT id, RANK() OVER (ORDER BY key) ... ORDER BY key LIMIT 20: the rows
\* (id, rank) a common table expression can hold.  The rank is taken over
\* all the rows, before the LIMIT; the LIMIT keeps the first of an order.
ranked_candidates(ids, key) ==
    LET ranked == [id \in ids |-> [id |-> id, rank |-> sql_rank(ids, key, id)]]
    IN  IF Cardinality(ids) <= CANDIDATE_LIMIT
        THEN {{ranked[id] : id \in ids}}
        ELSE {{ranked[id] : id \in Range(Take(o, CANDIDATE_LIMIT))} :
                 o \in order_by(ids, key)}

\* WITH semantic_search AS (...)
semantic_search(rows, embedding) ==
    LET ids == 1..Len(rows)
        distance == [id \in ids |-> cosine_distance(rows[id].embedding, embedding)]
    IN  ranked_candidates(ids, distance)

\* keyword_search AS (...)
keyword_search(rows, text) ==
    LET query == plainto_tsquery(text)
        ids == {id \in 1..Len(rows) :
                   tsvector_matches(to_tsvector(rows[id].text), query)}
        descending == [id \in ids |->
                          0 - ts_rank_cd(to_tsvector(rows[id].text), query)]
    IN  ranked_candidates(ids, descending)

\* Scores.
reciprocal(k, rank) == [num |-> 1, den |-> k + rank]
ZERO == [num |-> 0, den |-> 1]
greater(a, b) == a.num * b.den > b.num * a.den
\* The larger of two scores instead of their sum.
plus_max(a, b) == IF greater(a, b) THEN a ELSE b
plus(a, b) == [num |-> a.num * b.den + b.num * a.den, den |-> a.den * b.den]
same_score(a, b) == a.num * b.den = b.num * a.den

\* The rank an id has in a ranking, 0 when it is not in it.
rank_in(ranking, id) ==
    IF \E r \in ranking : r.id = id
    THEN (CHOOSE r \in ranking : r.id = id).rank
    ELSE 0

\* The join without the keyword term of the score.
joined_score_semantic(semantic, keyword, k, id) ==
    IF rank_in(semantic, id) # 0
    THEN reciprocal(k, rank_in(semantic, id)) ELSE ZERO

\* SELECT COALESCE(id, id), COALESCE(1.0 / (k + rank), 0.0) + COALESCE(...)
\* FROM semantic_search FULL OUTER JOIN keyword_search ON the ids equal:
\* the score of every id of either ranking.
joined_score(semantic, keyword, k, id) ==
    plus(IF rank_in(semantic, id) # 0
         THEN reciprocal(k, rank_in(semantic, id)) ELSE ZERO,
         IF rank_in(keyword, id) # 0
         THEN reciprocal(k, rank_in(keyword, id)) ELSE ZERO)

\* The joined rows: every id of either ranking, once, with its score.
joined_rows(semantic, keyword, k) ==
    {[id |-> id, score |-> joined_score(semantic, keyword, k, id)] :
        id \in {r.id : r \in semantic} \cup {r.id : r \in keyword}}

\* The rows in the order the ids were inserted, whatever their scores.
order_by_id(semantic, keyword, k) ==
    LET joined == joined_rows(semantic, keyword, k)
    IN  order_keyed({<<row.id, row>> : row \in joined})

\* ORDER BY score DESC: the orders of the joined rows.
order_by_score(semantic, keyword, k) ==
    LET joined == joined_rows(semantic, keyword, k)
    IN  order_keyed({<<Cardinality({other \in joined :
                                      greater(other.score, row.score)}), row>> :
                        row \in joined})

\* LIMIT left out: every row is returned.
sql_limit_all(rows, n) == rows

\* LIMIT n
sql_limit(rows, n) == Take(rows, n)

\* The results HYBRID_SEARCH_SQL can have: the two rankings, the joined rows
\* in score order, and the rows left by LIMIT %(limit)s.
HYBRID_SEARCH_SQL(rows, embedding, query, k, limit) ==
    UNION {UNION {{[semantic_search |-> semantic, keyword_search |-> keyword,
                    fused |-> fused, rows |-> sql_limit(fused, limit)] :
                       fused \in order_by_score(semantic, keyword, k)} :
                  keyword \in keyword_search(rows, query)} :
           semantic \in semantic_search(rows, embedding)}

\* Document(page_content=..., metadata=...) of a product row.
Document(row) == [page_content |-> row.text]

RetrievalCall(query, embedding) ==
    [NoRetrieval EXCEPT !.op = "get_embedding", !.query = query,
                        !.embedding = embedding, !.k = K,
                        !.max_results = retriever.max_results]

\* _get_relevant_documents(query) up to query_embedding = get_embedding(query):
\* the call waits for the embedding provider, which answers with a vector.
\* A retrieval starts when none is under way.
get_embedding(query, embedding) ==
    /\ ret.op # "get_embedding"
    /\ ret' = RetrievalCall(query, embedding)
    /\ UNCHANGED <<products, retriever, memoryVars, agentVars>>

\* _get_relevant_documents from db_conn.execute(HYBRID_SEARCH_SQL, ...) to its
\* return: the ids of the rows, then a Document for each.  PostgreSQL
\* rejects a negative LIMIT and db_conn.execute raises.
_get_relevant_documents ==
    /\ ret.op = "get_embedding"
    /\ IF retriever.max_results < 0
       THEN ret' = [ret EXCEPT !.op = "_get_relevant_documents",
                               !.raised = "psycopg.errors.InvalidRowCountInLimitClause"]
       ELSE \E result \in HYBRID_SEARCH_SQL(products, ret.embedding, ret.query,
                                            K, retriever.max_results) :
               ret' = [ret EXCEPT !.op = "_get_relevant_documents",
                                  !.semantic_search = result.semantic_search,
                                  !.keyword_search = result.keyword_search,
                                  !.fused = result.fused,
                                  !.rows = result.rows,
                                  !.documents =
                                      [i \in 1..Len(result.rows) |->
                                          Document(products[result.rows[i].id])]]
    /\ UNCHANGED <<products, retriever, memoryVars, agentVars>>

RagInit ==
    /\ store = <<>>
    /\ now = 0
    /\ last = NoCall
    /\ prev = NoCall
    /\ pc = "idle"
    /\ cl = NoClear
    /\ seen = NotSeen
    /\ \/ /\ products \in Catalogs
          /\ retriever \in [max_results : LimitValues]
       \/ /\ products = BigCatalog
          /\ retriever \in [max_results : {MaxLimit, CANDIDATE_LIMIT + 1}]
    /\ ret = NoRetrieval
    /\ saving = NoSaving
    /\ run = NoRun
    /\ chat = NoChat

RagNext ==
    \/ \E q \in RagQueries, a \in 0..MaxAngle : get_embedding(q, a)
    \/ _get_relevant_documents

RagSpec == RagInit /\ [][RagNext]_vars

(***************************************************************************)
(* HYBRID_SEARCH_SQL on its own: db_conn.execute(HYBRID_SEARCH_SQL, params) *)
(* for parameters of any value, "k" among them.                            *)
(***************************************************************************)
\* "k" is drawn from 1..MaxK and K.
MaxK == 2
FusionKs == (1..MaxK) \cup {K}

\* The catalogs of at most two products, and BigCatalog.
FusionCatalogs == UNION {[1..n -> ProductRows] : n \in 0..2} \cup {BigCatalog}

execute_hybrid_search(query, embedding, k, limit) ==
    /\ \E result \in HYBRID_SEARCH_SQL(products, embedding, query, k, limit) :
          ret' = [NoRetrieval EXCEPT !.op = "HYBRID_SEARCH_SQL", !.query = query,
                                     !.embedding = embedding, !.k = k,
                                     !.max_results = limit,
                                     !.semantic_search = result.semantic_search,
                                     !.keyword_search = result.keyword_search,
                                     !.fused = result.fused,
                                     !.rows = result.rows]
    /\ UNCHANGED <<products, retriever, memoryVars, agentVars>>

FusionInit ==
    /\ store = <<>>
    /\ now = 0
    /\ last = NoCall
    /\ prev = NoCall
    /\ pc = "idle"
    /\ cl = NoClear
    /\ seen = NotSeen
    /\ products \in FusionCatalogs
    /\ retriever = [max_results |-> 3]
    /\ ret = NoRetrieval
    /\ saving = NoSaving
    /\ run = NoRun
    /\ chat = NoChat

FusionNext ==
    \E q \in {<<"botas">>, <<"surf">>}, a \in {0}, k \in FusionKs,
       n \in {MaxLimit, CANDIDATE_LIMIT + 1} :
        execute_hybrid_search(q, a, k, n)

FusionSpec == FusionInit /\ [][FusionNext]_vars

-----------------------------------------------------------------------------
\* The retriever when one of its calls fails.  _get_relevant_documents has no
\* try statement: get_embedding(query), db_conn.execute(HYBRID_SEARCH_SQL, ...)
\* and each hydration query ...execute(...).fetchone() run unguarded.

RETRIEVER_FAULTS == {"get_embedding", "execute", "fetchone"}

\* A failing hydration query taken for a product that is not there.
raised_by_skipping(fault) ==
    CASE fault = "get_embedding" -> "openai.OpenAIError"
      [] fault = "execute" -> "psycopg.Error"
      [] OTHER -> "none"

\* The exception that leaves _get_relevant_documents when the call fails.
raised_by(fault) ==
    CASE fault = "get_embedding" -> "openai.OpenAIError"
      [] fault = "execute" -> "psycopg.Error"
      [] fault = "fetchone" -> "psycopg.Error"
      [] OTHER -> "none"

\* The documents appended by the loop over result_ids, product `skipped` left
\* out (if row: ...).
documents_without(rows, skipped) ==
    LET kept == SelectSeq([i \in 1..Len(rows) |-> i], LAMBDA i : i # skipped)
    IN  [j \in 1..Len(kept) |-> Document(products[rows[kept[j]].id])]

\* get_embedding(query) raises: the retrieval ends there.
get_embedding_raises(query) ==
    /\ ret.op # "get_embedding"
    /\ ret' = [RetrievalCall(query, 0) EXCEPT
                  !.op = "_get_relevant_documents",
                  !.fault = "get_embedding",
                  !.raised = raised_by("get_embedding")]
    /\ UNCHANGED <<products, retriever, memoryVars, agentVars>>

\* db_conn.execute(HYBRID_SEARCH_SQL, ...) raises.
execute_raises ==
    /\ ret.op = "get_embedding"
    /\ ret' = [ret EXCEPT !.op = "_get_relevant_documents",
                          !.fault = "execute",
                          !.raised = raised_by("execute")]
    /\ UNCHANGED <<products, retriever, memoryVars, agentVars>>

\* The fused query returns rows and the hydration query of one of them raises.
fetchone_raises ==
    /\ ret.op = "get_embedding"
    /\ retriever.max_results >= 0
    /\ \E result \in HYBRID_SEARCH_SQL(products, ret.embedding, ret.query,
                                       K, retriever.max_results) :
          \E failing \in 1..Len(result.rows) :
             ret' = [ret EXCEPT !.op = "_get_relevant_documents",
                                !.fault = "fetchone",
                                !.raised = raised_by("fetchone"),
                                !.semantic_search = result.semantic_search,
                                !.keyword_search = result.keyword_search,
                                !.fused = result.fused,
                                !.rows = result.rows,
                                !.documents =
                                    IF raised_by("fetchone") = "none"
                                    THEN documents_without(result.rows, failing)
                                    ELSE <<>>]
    /\ UNCHANGED <<products, retriever, memoryVars, agentVars>>

RetrieverFaultInit ==
    /\ store = <<>>
    /\ now = 0
    /\ last = NoCall
    /\ prev = NoCall
    /\ pc = "idle"
    /\ cl = NoClear
    /\ seen = NotSeen
    /\ products \in UNION {[1..n -> ProductRows] : n \in 0..2}
    /\ retriever \in [max_results : 0..2]
    /\ ret = NoRetrieval
    /\ saving = NoSaving
    /\ run = NoRun
    /\ chat = NoChat

RetrieverFaultNext ==
    \/ \E q \in RagQueries, a \in 0..MaxAngle : get_embedding(q, a)
    \/ _get_relevant_documents
    \/ \E q \in RagQueries : get_embedding_raises(q)
    \/ execute_raises
    \/ fetchone_raises

RetrieverFaultSpec == RetrieverFaultInit /\ [][RetrieverFaultNext]_vars

-----------------------------------------------------------------------------
\* save_memory taken in two steps by each client.  Nothing locks the store
\* between existing = self.get_all_memories() and self.r.hset(...): another
\* client's commands can run in between.

\* A store that lists the owner's facts again just before writing.
listed_at_write_fresh(existing, docs, user_id) == get_all_memories(docs, user_id)

\* The list the deduplication loop runs over: the one read at the start of
\* the call.
listed_at_write(existing, docs, user_id) == existing

\* existing = self.get_all_memories()
save_list(c, user_id, content) ==
    /\ saving[c].pc \in {"idle", "returned"}
    /\ saving' = [saving EXCEPT ![c] =
                     [pc |-> "listed", user_id |-> user_id, content |-> content,
                      existing |-> get_all_memories(store, user_id),
                      memory_id |-> <<>>]]
    /\ UNCHANGED <<storeVars, callVars, clearVars, ragVars, run, chat>>

\* The deduplication loop, then memory_id = ..., self.r.hset(...) and return.
save_write(c) ==
    /\ saving[c].pc = "listed"
    /\ LET call == saving[c]
       IN  IF is_duplicate(listed_at_write(call.existing, store, call.user_id),
                           call.content)
           THEN /\ saving' = [saving EXCEPT ![c].pc = "returned"]
                /\ UNCHANGED storeVars
           ELSE \E memory_id \in new_memory_ids(store), t \in now..MaxClock :
                   /\ now' = t
                   /\ store' = hset(store, memory_id,
                                    [content |-> call.content,
                                     user_id |-> call.user_id,
                                     timestamp |-> t])
                   /\ saving' = [saving EXCEPT ![c].pc = "returned",
                                               ![c].memory_id = memory_id]
    /\ UNCHANGED <<callVars, clearVars, ragVars, run, chat>>

RaceNext ==
    \/ \E c \in Clients, u \in UserIds, content \in FactTexts :
          save_list(c, u, content)
    \/ \E c \in Clients : save_write(c)

RaceSpec == Init /\ [][RaceNext]_vars

-----------------------------------------------------------------------------
\* tool-calling (and multi-agent): run(llm_with_tools, messages).

\* tool_map: the names of the tools, and whether the tool returns a str.
tool_map ==
    [get_current_date |-> TRUE, get_weather |-> FALSE, get_activities |-> FALSE]

\* The names a response of the model can call: the tools bound to it, and a
\* name that is not a key of tool_map.
CallNames == {"get_current_date", "get_weather", "no_such_tool"}

SystemMessage == [type |-> "system", content |-> "prompt", tool_calls |-> <<>>,
                  tool_call_id |-> <<>>]
HumanMessage == [type |-> "human", content |-> "question", tool_calls |-> <<>>,
                 tool_call_id |-> <<>>]

\* The AIMessage the model answers with: its invoke-th response, calling the
\* tools named; the provider numbers the calls of a response.
AIMessage(invoke, names) ==
    [type |-> "ai",
     content |-> IF names = <<>> THEN "answer" ELSE "",
     tool_calls |-> [i \in 1..Len(names) |->
                        [name |-> names[i], id |-> <<invoke, i>>]],
     tool_call_id |-> <<>>]

\* A ToolMessage that does not carry the id of the call.
ToolMessage_unlinked(content, tool_call_id) ==
    [type |-> "tool", content |-> content, tool_calls |-> <<>>,
     tool_call_id |-> <<>>]

ToolMessage(content, tool_call_id) ==
    [type |-> "tool", content |-> content, tool_calls |-> <<>>,
     tool_call_id |-> tool_call_id]

\* result = tool_map[name].invoke(args), turned into JSON when it is no str.
tool_result(name) ==
    IF tool_map[name] THEN <<"str", name>> ELSE <<"json.dumps", name>>

invokes(messages) ==
    Cardinality({i \in 1..Len(messages) : messages[i].type = "ai"})

\* main: the message list run is called with.
run_begin ==
    /\ run.pc = "idle"
    /\ run' = [NoRun EXCEPT !.pc = "invoke",
                            !.messages = <<SystemMessage, HumanMessage>>]
    /\ UNCHANGED <<memoryVars, ragVars, saving, chat>>

\* response = llm_with_tools.invoke(messages); messages.append(response);
\* if not response.tool_calls: return response.content
run_invoke(names) ==
    /\ run.pc = "invoke"
    /\ invokes(run.messages) < MaxInvokes
    /\ LET response == AIMessage(invokes(run.messages) + 1, names)
       IN  run' = [run EXCEPT
                      !.messages = Append(run.messages, response),
                      !.pc = IF response.tool_calls = <<>>
                             THEN "returned" ELSE "tool_calls",
                      !.tc = IF response.tool_calls = <<>> THEN 0 ELSE 1,
                      !.returned = IF response.tool_calls = <<>>
                                   THEN response.content ELSE "none"]
    /\ UNCHANGED <<memoryVars, ragVars, saving, chat>>

\* One turn of for tc in response.tool_calls: the tool is looked up and
\* invoked and its ToolMessage appended; a name that is not in tool_map
\* raises KeyError out of run.
run_tool_call ==
    /\ run.pc = "tool_calls"
    /\ LET response == CHOOSE m \in Range(run.messages) :
                          /\ m.type = "ai"
                          /\ m.tool_calls # <<>>
                          /\ m.tool_calls[1].id[1] = invokes(run.messages)
           tc == response.tool_calls[run.tc]
       IN  IF tc.name \notin DOMAIN tool_map
           THEN run' = [run EXCEPT !.pc = "raised", !.raised = "KeyError"]
           ELSE run' = [run EXCEPT
                           !.messages =
                               Append(run.messages,
                                      ToolMessage(tool_result(tc.name), tc.id)),
                           !.tc = IF run.tc < Len(response.tool_calls)
                                  THEN run.tc + 1 ELSE 0,
                           !.pc = IF run.tc < Len(response.tool_calls)
                                  THEN "tool_calls" ELSE "invoke"]
    /\ UNCHANGED <<memoryVars, ragVars, saving, chat>>

RunNext ==
    \/ run_begin
    \/ \E names \in UNION {[1..n -> CallNames] : n \in 0..MaxToolCalls} :
          run_invoke(names)
    \/ run_tool_call

RunSpec == Init /\ [][RunNext]_vars

-----------------------------------------------------------------------------
\* summarize-conversation: SummarizingChat.  A message is its kind and the
\* number of tokens of its content (count_tokens).

\* token_threshold, in the scale of the small token counts of the model.
Thresholds == {4, 12}

\* cb.total_tokens of a turn: prompt and completion tokens.
TotalTokens == {5, 8}

Message(type, tokens) == [type |-> type, tokens |-> tokens]

\* count_message_tokens(messages): 4 for each message, its tokens, and 2.
RECURSIVE sum_tokens(_)
sum_tokens(messages) ==
    IF messages = <<>> THEN 0
    ELSE 4 + Head(messages).tokens + sum_tokens(Tail(messages))

count_message_tokens(messages) == sum_tokens(messages) + 2

\* The test without the length of the history.
must_summarize_any_length(context_tokens, token_threshold, messages) ==
    context_tokens > token_threshold

\* self.context_tokens > self.token_threshold and len(messages) > 2
must_summarize(context_tokens, token_threshold, messages) ==
    context_tokens > token_threshold /\ Len(messages) > 2

\* chat(user_message) up to the end of self._check_and_summarize(): the
\* summary the model writes has some number of tokens.
_check_and_summarize(user_message) ==
    /\ chat.pc = "idle"
    /\ chat.turns < MaxTurns
    /\ IF must_summarize(chat.context_tokens, chat.token_threshold, chat.history)
       THEN \E summary_tokens \in 1..MaxTokens :
               LET history == <<Message("summary", summary_tokens)>>
               IN  chat' = [chat EXCEPT
                               !.pc = "checked",
                               !.user_message = user_message,
                               !.history = history,
                               !.context_tokens = count_message_tokens(history)]
       ELSE chat' = [chat EXCEPT !.pc = "checked",
                                 !.user_message = user_message]
    /\ UNCHANGED <<memoryVars, ragVars, saving, run>>

\* chat(user_message) from self.chain.invoke(...) to its return.
chat_invoke ==
    /\ chat.pc = "checked"
    /\ \E response \in 1..MaxTokens, new_tokens \in TotalTokens :
          chat' = [chat EXCEPT
                      !.pc = "idle",
                      !.history = chat.history
                                     \o <<Message("human", chat.user_message),
                                          Message("ai", response)>>,
                      !.context_tokens = chat.context_tokens + new_tokens,
                      !.turns = chat.turns + 1]
    /\ UNCHANGED <<memoryVars, ragVars, saving, run>>

ChatInit ==
    /\ store = <<>>
    /\ now = 0
    /\ last = NoCall
    /\ prev = NoCall
    /\ pc = "idle"
    /\ cl = NoClear
    /\ seen = NotSeen
    /\ products = <<>>
    /\ retriever = [max_results |-> 3]
    /\ ret = NoRetrieval
    /\ saving = NoSaving
    /\ run = NoRun
    /\ chat \in {[NoChat EXCEPT !.token_threshold = t] : t \in Thresholds}

ChatNext ==
    \/ \E user_message \in 1..MaxTokens : _check_and_summarize(user_message)
    \/ chat_invoke

ChatSpec == ChatInit /\ [][ChatNext]_vars

(***************************************************************************)
(* Properties of the store.                                                *)
(***************************************************************************)
\* The facts of an owner that hold at least one of the keywords.
matching_keys(docs, user_id, keywords) ==
    {docs[i].key : i \in
        {j \in 1..Len(docs) :
            /\ docs[j].user_id = user_id
            /\ \E k \in 1..Len(keywords) :
                  lower(keywords[k]) \in indexed(docs[j].content)}}

\* Two save_memory calls in a row for the same owner.
SavedTwice ==
    /\ prev.op = "save_memory"
    /\ last.op = "save_memory"
    /\ prev.user_id = last.user_id

\* The hash of a fact: its key, its owner and its content.
Stored(memory_id, user_id, content) ==
    \E i \in 1..Len(store) :
        /\ store[i].key = memory_id
        /\ store[i].user_id = user_id
        /\ store[i].content = content

\* C1: no two stored facts of one owner have contents that are equal after
\* strip() and lower(), however many facts the owner holds.
NoDuplicateFacts ==
    \A i, j \in 1..Len(store) :
        (i # j /\ store[i].user_id = store[j].user_id)
            => strip_lower(store[i].content) # strip_lower(store[j].content)

\* C2: saving a content twice in a row for an owner, the content not being
\* among the memories listed before, stores one fact: the first call returns
\* a new identifier, the second returns "" and writes nothing, and the
\* owner's facts and listing grow by one.
SaveTwiceStoresOnce ==
    ( /\ SavedTwice
      /\ prev.text = last.text
      /\ \A i \in 1..Len(prev.existing) :
            strip_lower(prev.existing[i]) # strip_lower(prev.text) )
    => /\ prev.memory_id # <<>>
       /\ last.memory_id = <<>>
       /\ Len(OwnedBy(store, last.user_id)) = prev.owned + 1
       /\ Len(get_all_memories(store, last.user_id)) = Len(prev.existing) + 1

EmptyKeywordsFallBack ==
    (last.op = "search_memories" /\ keywords_of(last.text) = <<>>)
    => last.memories
          = Take(get_all_memories(store, last.user_id), last.max_results)

\* A query of stop words, punctuation and a one-letter word, answered with
\* the first of the owner's two facts.
EmptyKeywordsWitness ==
    /\ last.op = "search_memories"
    /\ last.text # <<>>
    /\ strip(last.text) # <<>>
    /\ keywords_of(last.text) = <<>>
    /\ last.max_results = 1
    /\ Len(last.memories) = 1
    /\ Len(get_all_memories(store, last.user_id)) = 2

ResultCap ==
    last.op = "search_memories" => Len(last.memories) <= last.max_results

\* A keyword search with two matching facts and max_results = 1.
ResultCapWitness ==
    /\ last.op = "search_memories"
    /\ keywords_of(last.text) # <<>>
    /\ last.max_results = 1
    /\ Len(last.memories) = 1
    /\ Cardinality(matching_keys(store, last.user_id, keywords_of(last.text))) = 2

\* C7: with keywords, the query sent is the owner filter intersected with
\* the union of the keywords; the facts returned are facts of the owner that
\* hold at least one keyword, as many of them as max_results allows, none
\* twice.
DisjunctiveMatching ==
    (last.op = "search_memories" /\ keywords_of(last.text) # <<>>)
    => LET keywords == keywords_of(last.text)
           parsed == parsed_query(full_query(last.user_id, keywords))
           eligible == matching_keys(store, last.user_id, keywords)
       IN  /\ parsed.ok
           /\ parsed.filter
           /\ parsed.tags = {last.user_id}
           /\ parsed.text
           /\ parsed.alts = {{lower(keywords[k])} : k \in 1..Len(keywords)}
           /\ Range(last.docs) \subseteq eligible
           /\ Cardinality(Range(last.docs)) = Len(last.docs)
           /\ Len(last.docs) = IF last.max_results < Cardinality(eligible)
                               THEN last.max_results ELSE Cardinality(eligible)

\* A search with two keywords that returns a fact holding only one of them
\* and leaves out the owner's other fact, which holds neither.
DisjunctiveMatchingWitness ==
    /\ last.op = "search_memories"
    /\ Len(keywords_of(last.text)) = 2
    /\ last.max_results = 2
    /\ Len(last.memories) = 1
    /\ Len(OwnedBy(store, last.user_id)) = 2
    /\ \E k \in 1..2 : lower(keywords_of(last.text)[k]) \notin indexed(last.memories[1])

\* C8: clear_memories of one owner leaves the facts of every other owner
\* (keys and all fields, in their order) as they were.
ClearLeavesOthers ==
    [][\A u \in UserIds :
          clear_memories(u)
              => \A v \in UserIds \ {u} : OwnedBy(store', v) = OwnedBy(store, v)]_vars

\* A clear that deleted facts while another owner holds some.
ClearLeavesOthersWitness ==
    /\ last.op = "clear_memories"
    /\ last.count > 0
    /\ \E v \in UserIds \ {last.user_id} : OwnedBy(store, v) # <<>>

\* C9: clear_memories deletes every fact of the owner and returns how many
\* the owner held; get_all_memories is empty afterwards.
ClearDeletesAll ==
    last.op = "clear_memories"
    => /\ last.count = last.owned
       /\ OwnedBy(store, last.user_id) = <<>>
       /\ get_all_memories(store, last.user_id) = <<>>

\* A clear of an owner who held more facts than get_all_memories lists.
ClearDeletesAllWitness ==
    /\ last.op = "clear_memories"
    /\ last.count > PAGE_LIMIT

\* C10: when a clear_memories call has ended, by return or by a failed
\* command, the owner's facts are all gone or all there; a listing made
\* during the call sees all of them or none.
ClearAtomic ==
    /\ pc \in {"returned", "failed"}
          => Len(OwnedBy(store, cl.user_id)) \in {0, cl.owned}
    /\ seen.made => Len(seen.memories) \in {0, cl.owned}

\* The engine answers the keyword query of the last search with
\* redis.ResponseError: the index is missing, or the query is malformed.
QueryRejected ==
    /\ last.op = "search_memories"
    /\ keywords_of(last.text) # <<>>
    /\ last.engine # "down"
    /\ \/ last.engine = "no_index"
       \/ ~parsed_query(full_query(last.user_id, keywords_of(last.text))).ok

\* C11: when the engine rejects the query of search_memories with a
\* response error, the call returns [] and raises nothing; a search never
\* changes the store.
RejectedQueryGivesEmpty ==
    /\ [](QueryRejected => (last.memories = <<>> /\ last.raised = "none"))
    /\ [][last'.op = "search_memories" => store' = store]_vars

\* A malformed query (the owner identifier holds "{") searched while the
\* index is there and facts are stored; the call returned [].
RejectedQueryWitness ==
    /\ QueryRejected
    /\ last.engine = "up"
    /\ store # <<>>
    /\ last.memories = <<>>
    /\ last.raised = "none"

\* C12: a search_memories or get_all_memories call made while the index is
\* missing or the connection lost ends in an exception, not in a result.
StorageFailureSurfaced ==
    (last.op \in {"search_memories", "get_all_memories"} /\ last.engine # "up")
    => last.raised # "none"

\* A part of a query string is the escaped form of a text: none of its
\* reserved characters stands without a backslash before it, and it reads
\* back as the text.
EscapedFormOf(part, text) ==
    /\ ~has_unescaped_special(part)
    /\ unescape(part) = text

\* C13: in every query string composed, the owner identifier between
\* "@user_id:{" and "}" and every keyword of the text clause stand in their
\* escaped form, whatever the identifier and the text.
QueryPartsEscaped ==
    last.op = "Query"
    => LET n == Len(USER_ID_FILTER)
           keywords == _extract_keywords(last.text)
       IN  \E i \in (n + 1)..Len(last.sent) :
              /\ last.sent[i] = "}"
              /\ EscapedFormOf(SubSeq(last.sent, n + 1, i - 1), last.user_id)
              /\ LET rest == SubSeq(last.sent, i + 1, Len(last.sent))
                 IN  IF keywords = <<>> THEN rest = <<>>
                     ELSE \E terms \in [1..Len(keywords) ->
                                           {_escape_query(keywords[k]) :
                                               k \in 1..Len(keywords)}] :
                            /\ \A k \in 1..Len(keywords) :
                                  EscapedFormOf(terms[k], keywords[k])
                            /\ rest = <<" ", "(">>
                                        \o join(<<" ", "|", " ">>, terms)
                                        \o <<")">>

-----------------------------------------------------------------------------
\* Properties of the hybrid retriever.

\* The fused query has been executed and has returned.
Returned == ret.op \in {"_get_relevant_documents", "HYBRID_SEARCH_SQL"}
            /\ ret.raised = "none"

semantic_ids == {r.id : r \in ret.semantic_search}
keyword_ids == {r.id : r \in ret.keyword_search}
union_ids == semantic_ids \cup keyword_ids
fused_ids == {ret.fused[i].id : i \in 1..Len(ret.fused)}
returned_ids == {ret.rows[i].id : i \in 1..Len(ret.rows)}
Min(a, b) == IF a < b THEN a ELSE b

\* C14: before truncation every id of the union of the two rankings appears
\* exactly once, and its score is 1/(k + ra) + 1/(k + rb) when it is in both
\* rankings, 1/(k + r) when it is in only one (the absent side adds zero).
FusedScoreRule ==
    Returned =>
        /\ fused_ids = union_ids
        /\ Len(ret.fused) = Cardinality(union_ids)
        /\ \A i \in 1..Len(ret.fused) :
              LET id == ret.fused[i].id
                  sc == ret.fused[i].score
                  ra == rank_in(ret.semantic_search, id)
                  rb == rank_in(ret.keyword_search, id)
              IN  CASE id \in semantic_ids /\ id \in keyword_ids ->
                          sc.num * (ret.k + ra) * (ret.k + rb)
                             = sc.den * (2 * ret.k + ra + rb)
                    [] id \in semantic_ids -> sc.num * (ret.k + ra) = sc.den
                    [] OTHER -> sc.num * (ret.k + rb) = sc.den

\* A fused result with an id of both rankings, one of the semantic ranking
\* only and one of the keyword ranking only.
FusedScoreWitness ==
    /\ Returned
    /\ semantic_ids \cap keyword_ids # {}
    /\ semantic_ids \ keyword_ids # {}
    /\ keyword_ids \ semantic_ids # {}

\* C15: the output is in non-increasing score order and holds exactly the
\* min(limit, |union|) highest-scoring ids.
HighestScoresFirst ==
    (Returned /\ ret.max_results >= 0) =>
        /\ Len(ret.rows) = Min(ret.max_results, Cardinality(union_ids))
        /\ \A i \in 1..Len(ret.rows) : \A j \in 1..Len(ret.rows) :
              i < j => ~greater(ret.rows[j].score, ret.rows[i].score)
        /\ \A i \in 1..Len(ret.rows) : ret.rows[i] \in Range(ret.fused)
        /\ \A i \in 1..Len(ret.fused) :
              ret.fused[i].id \notin returned_ids
                 => \A j \in 1..Len(ret.rows) :
                       ~greater(ret.fused[i].score, ret.rows[j].score)

\* A truncated output over rows of different scores.
HighestScoresWitness ==
    /\ Returned
    /\ Len(ret.rows) >= 2
    /\ Len(ret.rows) < Cardinality(union_ids)
    /\ greater(ret.rows[1].score, ret.rows[Len(ret.rows)].score)
    /\ \E i \in 1..Len(ret.fused) :
          /\ ret.fused[i].id \notin returned_ids
          /\ greater(ret.rows[Len(ret.rows)].score, ret.fused[i].score)

\* The rank of a fused id that is in only one of the two rankings.
single_rank(id) ==
    IF id \in semantic_ids THEN rank_in(ret.semantic_search, id)
    ELSE rank_in(ret.keyword_search, id)

\* C16: for every k > 0, an id of both rankings, at ranks (ra, rb), has a
\* fused score strictly greater than any id of only one ranking at a rank
\* >= min(ra, rb), and is placed before it; so for [A, B], [B, C] and k = 60,
\* B comes before both A and C.
BothRankingsBeatOne ==
    (Returned /\ ret.k > 0) =>
        \A i \in 1..Len(ret.fused) : \A j \in 1..Len(ret.fused) :
            LET both == ret.fused[i].id
                one == ret.fused[j].id
                ra == rank_in(ret.semantic_search, both)
                rb == rank_in(ret.keyword_search, both)
            IN  (/\ both \in semantic_ids \cap keyword_ids
                 /\ one \notin semantic_ids \cap keyword_ids
                 /\ single_rank(one) >= Min(ra, rb))
                    => /\ greater(ret.fused[i].score, ret.fused[j].score)
                       /\ i < j

\* k = 60, B second of the semantic ranking and first of the keyword ranking,
\* A first of the semantic ranking only, C second of the keyword ranking only:
\* B is the first row.
BothRankingsWitness ==
    /\ Returned
    /\ ret.k = K
    /\ Len(ret.fused) >= 3
    /\ LET B == ret.fused[1].id
       IN  /\ rank_in(ret.semantic_search, B) = 2
           /\ rank_in(ret.keyword_search, B) = 1
           /\ \E A \in semantic_ids \ keyword_ids :
                 rank_in(ret.semantic_search, A) = 1
           /\ \E C \in keyword_ids \ semantic_ids :
                 rank_in(ret.keyword_search, C) = 2

\* C17: with max_results = n > 0 the retriever returns exactly
\* min(n, number of distinct ids of the union of the two rankings) documents,
\* each the document of a fused row, and the empty sequence when both
\* rankings are empty.
DocumentCount ==
    (ret.op = "_get_relevant_documents" /\ ret.max_results > 0) =>
        /\ ret.raised = "none"
        /\ Len(ret.documents) = Min(ret.max_results, Cardinality(union_ids))
        /\ \A i \in 1..Len(ret.documents) :
              /\ ret.rows[i].id \in union_ids
              /\ ret.documents[i] = Document(products[ret.rows[i].id])
        /\ (ret.semantic_search = {} /\ ret.keyword_search = {})
              => ret.documents = <<>>

\* A retrieval whose union holds more than n ids returns n documents.
DocumentCountWitness ==
    /\ ret.op = "_get_relevant_documents"
    /\ ret.max_results > 0
    /\ Cardinality(union_ids) > ret.max_results
    /\ Len(ret.documents) = ret.max_results

\* The ids of the records that contain at least one term of the query.
term_holders ==
    {id \in DOMAIN products :
        Range(to_tsvector(products[id].text))
           \cap Range(to_tsvector(ret.query)) # {}}

\* C18: lexical recall floor: for a multi-word query, when at most
\* max_results records contain at least one term of the query, every such
\* record is in the output, whatever the semantic ranking.
LexicalRecallFloor ==
    (/\ ret.op = "_get_relevant_documents"
     /\ Len(ret.query) > 1
     /\ Cardinality(term_holders) <= ret.max_results)
        => /\ ret.raised = "none"
           /\ term_holders \subseteq returned_ids

\* The distance of a catalog record's embedding to the query's embedding.
distance_of(id) ==
    LET a == products[id].embedding
        b == ret.embedding
    IN  IF a < b THEN b - a ELSE a - b

\* The output is `count` records, in ascending distance, none farther than a
\* record left out.
NearestReturned(count) ==
    /\ ret.raised = "none"
    /\ ret.documents # <<>>
    /\ Len(ret.documents) = count
    /\ \A i \in 1..Len(ret.rows) :
          ret.documents[i] = Document(products[ret.rows[i].id])
    /\ \A i \in 1..Len(ret.rows) : \A j \in 1..Len(ret.rows) :
          i < j => distance_of(ret.rows[i].id) <= distance_of(ret.rows[j].id)
    /\ \A id \in DOMAIN products : \A i \in 1..Len(ret.rows) :
          id \notin returned_ids
             => distance_of(ret.rows[i].id) <= distance_of(id)

\* No record matches the query lexically and the catalog is not empty.
SemanticOnly ==
    /\ ret.op = "_get_relevant_documents"
    /\ ret.max_results > 0
    /\ products # <<>>
    /\ \A id \in DOMAIN products :
          ~tsvector_matches(to_tsvector(products[id].text),
                            plainto_tsquery(ret.query))

\* C19 as stated: on the semantic-only path the output is the max_results
\* nearest records (all of them when the catalog has fewer), in ascending
\* distance.
SemanticOnlyNearest ==
    SemanticOnly => NearestReturned(Min(ret.max_results, Len(products)))

\* C19: on the semantic-only path, with max_results > 0, the output is not
\* empty and is the min(max_results, 20, catalog size) nearest records, in
\* ascending distance; a nearest record is always returned.
SemanticOnlyNearestInWindow ==
    SemanticOnly =>
        NearestReturned(Min(Min(ret.max_results, CANDIDATE_LIMIT),
                            Len(products)))

\* A semantic-only retrieval that leaves out a record farther than those it
\* returns.
SemanticOnlyWitness ==
    /\ SemanticOnly
    /\ ret.keyword_search = {}
    /\ Len(ret.documents) = ret.max_results
    /\ \E id \in DOMAIN products :
          /\ id \notin returned_ids
          /\ distance_of(ret.rows[Len(ret.rows)].id) < distance_of(id)
    /\ distance_of(ret.rows[1].id) < distance_of(ret.rows[Len(ret.rows)].id)

\* C20: a retrieval with k <= 0 or max_results <= 0 ends in an error, never
\* in a normal result.
InvalidParametersRejected ==
    (/\ ret.op = "_get_relevant_documents"
     /\ (ret.k <= 0 \/ ret.max_results <= 0))
        => ret.raised # "none"

\* C21: the retriever never turns a failure into a normal result: when the
\* embedding call, the fused query or a hydration query fails, the retrieval
\* ends in an error and returns no documents; it returns the empty list only
\* when the fused result had no ids.
FailuresPropagate ==
    ret.op = "_get_relevant_documents" =>
        /\ ret.fault \in RETRIEVER_FAULTS
              => (ret.raised # "none" /\ ret.documents = <<>>)
        /\ (ret.raised = "none" /\ ret.documents = <<>>) => ret.rows = <<>>

\* The hydration query of the second of two fused rows has failed.
FailuresPropagateWitness ==
    /\ ret.op = "_get_relevant_documents"
    /\ ret.fault = "fetchone"
    /\ Len(ret.rows) = 2
    /\ ret.raised # "none"

\* C22: a catalog record is in the keyword ranking if and only if its indexed
\* text matches at least one term of the query (catalogs within the candidate
\* window, so that no matching record is cut off).
LexicalMembership ==
    (/\ ret.op = "_get_relevant_documents"
     /\ ret.raised = "none"
     /\ Len(products) <= CANDIDATE_LIMIT)
        => keyword_ids = term_holders

\* The place at which an id is first encountered scanning the semantic
\* ranking and then the keyword ranking.
first_encounter(id) ==
    IF id \in semantic_ids THEN rank_in(ret.semantic_search, id)
    ELSE CANDIDATE_LIMIT + rank_in(ret.keyword_search, id)

\* C23: stable tie-break: two ids of equal fused score are listed in the
\* order in which they are first encountered scanning the semantic ranking
\* and then the keyword ranking (ids of equal rank in either order).
StableTieBreak ==
    Returned =>
        \A i \in 1..Len(ret.fused) : \A j \in 1..Len(ret.fused) :
            (i < j /\ same_score(ret.fused[i].score, ret.fused[j].score))
                => first_encounter(ret.fused[i].id)
                      <= first_encounter(ret.fused[j].id)

-----------------------------------------------------------------------------
\* Properties of concurrent saves.

\* The facts of an owner whose content equals `content` after strip().lower().
same_facts(user_id, content) ==
    {i \in 1..Len(store) :
        /\ store[i].user_id = user_id
        /\ strip_lower(store[i].content) = strip_lower(content)}

\* Both clients saved the same fact (up to strip().lower()) for one owner, and
\* each listed the owner's facts before the other wrote: neither list holds it.
BothListedBeforeEitherWrote ==
    /\ \A c \in Clients : saving[c].pc = "returned"
    /\ saving[1].user_id = saving[2].user_id
    /\ strip_lower(saving[1].content) = strip_lower(saving[2].content)
    /\ \A c \in Clients : ~is_duplicate(saving[c].existing, saving[c].content)

\* C24: two concurrent saves of the same fact for one owner that both list
\* the owner's facts before either writes both find no duplicate and both
\* write: the owner then holds two facts of identical normalized content.
RaceStoresTwice ==
    BothListedBeforeEitherWrote =>
        /\ \A c \in Clients : saving[c].memory_id # <<>>
        /\ saving[1].memory_id # saving[2].memory_id
        /\ Cardinality(same_facts(saving[1].user_id, saving[1].content)) >= 2

\* The state the race reaches: one owner, two facts, one normalized content.
RaceStoresTwiceWitness ==
    /\ BothListedBeforeEitherWrote
    /\ Len(store) = 2
    /\ store[1].user_id = store[2].user_id
    /\ strip_lower(store[1].content) = strip_lower(store[2].content)

-----------------------------------------------------------------------------
\* Properties of the keyword extraction.

Extracted == last.op = "_extract_keywords"

\* The whitespace-delimited units of a text, each stripped of its
\* non-alphanumeric characters.
stripped_units(text) ==
    LET units == split(text)
    IN  [i \in 1..Len(units) |->
            SelectSeq(units[i], LAMBDA c : isalnum(c))]

\* Those of the units that are longer than one character and whose lowercased
\* form is not a stop word, in order, duplicates kept.
kept_units(units) ==
    SelectSeq(units,
              LAMBDA u : Len(u) > 1 /\ lower(u) \notin _STOP_WORDS)

\* The text with each accented letter replaced by its base letter.
unaccented(text) ==
    SelectSeq(nfkd(text), LAMBDA c : c \notin COMBINING)

\* No token is empty, one character long or a stop word, or holds a
\* character that is not alphanumeric.
ProperTokens(tokens) ==
    \A i \in 1..Len(tokens) :
        /\ Len(tokens[i]) > 1
        /\ lower(tokens[i]) \notin _STOP_WORDS
        /\ \A j \in 1..Len(tokens[i]) : isalnum(tokens[i][j])

\* C26 as stated: the output is the kept units of the text itself.
KeywordsAreKeptUnits ==
    Extracted =>
        /\ last.keywords = kept_units(stripped_units(last.text))
        /\ ProperTokens(last.keywords)

\* C26: the output is the kept units of the text with its accented letters
\* replaced by their base letters; no output token is empty, one character
\* long, a stop word, or holds a non-alphanumeric character.
KeywordsAreKeptUnaccentedUnits ==
    Extracted =>
        /\ last.keywords = kept_units(stripped_units(unaccented(last.text)))
        /\ ProperTokens(last.keywords)

\* "él París": the first unit is a stop word once its accent is dropped, the
\* second is kept without its accent.
KeywordsWitness ==
    /\ Extracted
    /\ last.text = <<"e_acute","l"," ","P","a","r","i_acute","s">>
    /\ last.keywords = << <<"P","a","r","i","s">> >>

\* C27: every token returned by the keyword extraction is in lower case, so
\* a text and its lowercased form yield the same tokens.
TokensLowercased ==
    Extracted =>
        /\ \A i \in 1..Len(last.keywords) :
              last.keywords[i] = lower(last.keywords[i])
        /\ last.keywords = _extract_keywords(lower(last.text))

\* The tokens, each in lower case.
lowered(tokens) == [i \in 1..Len(tokens) |-> lower(tokens[i])]

\* The stored facts of the owner searched for whose content, accents put
\* aside, holds a keyword of the query, letter case put aside.
accent_blind_matches ==
    {i \in 1..Len(store) :
        /\ store[i].user_id = last.user_id
        /\ \E k \in Range(_extract_keywords(last.text)) :
              lower(k) \in index_tokens(unaccented(store[i].content))}

\* C28: the tokens of a text equal, letter case put aside, the tokens of the
\* text with its accented letters replaced by their base letters; and a
\* search returns the stored facts whose content holds a query term in its
\* accented form (when the owner has at most max_results facts).
AccentInsensitiveSearch ==
    (/\ last.op = "search_memories"
     /\ Len(OwnedBy(store, last.user_id)) <= last.max_results)
        => /\ lowered(_extract_keywords(last.text))
                 = lowered(_extract_keywords(unaccented(last.text)))
           /\ \A i \in accent_blind_matches :
                 store[i].content \in Range(last.memories)

-----------------------------------------------------------------------------
\* Properties of the tool-calling loop.

\* The response at place i is followed by one ToolMessage for each of its
\* tool calls, in call order, each with the id of its call, and by nothing
\* else before the next response.
Answered(messages, i) ==
    LET calls == messages[i].tool_calls
    IN  /\ i + Len(calls) <= Len(messages)
        /\ \A j \in 1..Len(calls) :
              /\ messages[i + j].type = "tool"
              /\ messages[i + j].tool_call_id = calls[j].id
              /\ Cardinality({n \in 1..Len(messages) :
                                 /\ messages[n].type = "tool"
                                 /\ messages[n].tool_call_id = calls[j].id}) = 1
        /\ i + Len(calls) < Len(messages)
              => messages[i + Len(calls) + 1].type = "ai"

\* C29: run returns only at the first response without tool calls; whenever
\* the model is invoked again or run returns, every earlier response has
\* each of its tool calls answered by exactly one ToolMessage with the call's
\* id, appended in call order right after the response; the message list
\* only grows by appending.
ToolLoopProtocol ==
    /\ [](run.pc \in {"invoke", "returned"} =>
             \A i \in 1..Len(run.messages) :
                 run.messages[i].type = "ai" => Answered(run.messages, i))
    /\ [](run.pc = "returned" =>
             /\ run.messages[Len(run.messages)].type = "ai"
             /\ run.messages[Len(run.messages)].tool_calls = <<>>
             /\ run.returned = run.messages[Len(run.messages)].content
             /\ \A i \in 1..(Len(run.messages) - 1) :
                   run.messages[i].type = "ai"
                      => run.messages[i].tool_calls # <<>>)
    /\ [][/\ Len(run.messages) <= Len(run'.messages)
          /\ SubSeq(run'.messages, 1, Len(run.messages)) = run.messages]_vars

\* run has returned after a response with two tool calls and one with one.
ToolLoopWitness ==
    /\ run.pc = "returned"
    /\ Len(run.messages) = 8
    /\ Len(run.messages[3].tool_calls) = 2
    /\ Len(run.messages[6].tool_calls) = 1

-----------------------------------------------------------------------------
\* Properties of the summarizing chat.

\* C30: at the start of a turn the history is replaced by exactly one
\* summary message, and the counter reset to the token count of that message,
\* if and only if the counter exceeds the threshold and the history has more
\* than two messages; otherwise the check leaves both unchanged; the turn
\* then appends exactly two messages (user, assistant) and does not decrease
\* the counter.
SummarizeOnlyOverThreshold ==
    [][/\ (chat.pc = "idle" /\ chat'.pc = "checked") =>
             IF chat.context_tokens > chat.token_threshold
                /\ Len(chat.history) > 2
             THEN /\ Len(chat'.history) = 1
                  /\ chat'.history[1].type = "summary"
                  /\ chat'.context_tokens = 4 + chat'.history[1].tokens + 2
             ELSE /\ chat'.history = chat.history
                  /\ chat'.context_tokens = chat.context_tokens
       /\ (chat.pc = "checked" /\ chat'.pc = "idle") =>
             /\ Len(chat'.history) = Len(chat.history) + 2
             /\ SubSeq(chat'.history, 1, Len(chat.history)) = chat.history
             /\ chat'.history[Len(chat'.history) - 1].type = "human"
             /\ chat'.history[Len(chat'.history)].type = "ai"
             /\ chat'.context_tokens >= chat.context_tokens]_vars

\* The check has run with the counter above the threshold and a history of
\* two messages, and has left them alone.
SummarizeWitness ==
    /\ chat.pc = "checked"
    /\ Len(chat.history) = 2
    /\ chat.history[1].type = "human"
    /\ chat.context_tokens > chat.token_threshold

=============================================================================
